---------------------------- MODULE Spec2Model ----------------------------
(***************************************************************************)
(* A model of the SAP HANA dialect for SQLAlchemy                          *)
(* (src/sqlalchemy_hana/dialect.py): identifier normalisation, the DDL     *)
(* text of unique constraints, connection arguments and the catalog        *)
(* introspection operations.                                               *)
(*                                                                         *)
(* Python values are modelled as follows.  A str/unicode value is a TLA+   *)
(* string (ASCII only: the case mappings below are Python's str.upper and  *)
(* str.lower restricted to ASCII).  None is the value None below.  A list  *)
(* is a sequence, a dict with fixed keys is a record.  The result set of a *)
(* catalog query is the sequence of the rows of the view that satisfy the  *)
(* WHERE clause, sorted by the ORDER BY key.                               *)
(***************************************************************************)
EXTENDS Integers, Sequences, FiniteSets, TLC

VARIABLES
    ident,                \* the identifier handed to the name conversions
    steps,                \* the conversions applied to it so far, in order
    catalog,              \* the system views of the database
    default_schema_name,  \* dialect.default_schema_name
    flags,                \* the class-level capability flags of HANADialect
    last,                 \* the most recent call of a dialect operation
    prev                  \* the call before it

vars == <<ident, steps, catalog, default_schema_name, flags, last, prev>>

-----------------------------------------------------------------------------
(* Python values *)

\* Python's None.  No identifier of the model contains '<'.
None == "<None>"

\* bool(x) of a str-or-None value, as used by "schema or default".
Truthy(x) == x /= None /\ x /= ""

\* "a or b"
Or(a, b) == IF Truthy(a) THEN a ELSE b

Lowercase == "abcdefghijklmnopqrstuvwxyz"
Uppercase == "ABCDEFGHIJKLMNOPQRSTUVWXYZ"
Digits    == "0123456789"

CharsOf(s) == {SubSeq(s, i, i) : i \in 1..Len(s)}

Position(c, s) == CHOOSE i \in 1..Len(s) : SubSeq(s, i, i) = c

\* The upper-case letter of every lower-case letter, and the reverse.
UpperOf ==
    [c \in CharsOf(Lowercase) |->
        LET i == Position(c, Lowercase) IN SubSeq(Uppercase, i, i)]

LowerOf ==
    [c \in CharsOf(Uppercase) |->
        LET i == Position(c, Uppercase) IN SubSeq(Lowercase, i, i)]

ToUpperChar(c) == IF c \in DOMAIN UpperOf THEN UpperOf[c] ELSE c

ToLowerChar(c) == IF c \in DOMAIN LowerOf THEN LowerOf[c] ELSE c

RECURSIVE upper(_)
\* str.upper()
upper(s) == IF s = "" THEN "" ELSE ToUpperChar(Head(s)) \o upper(Tail(s))

RECURSIVE lower(_)
\* str.lower()
lower(s) == IF s = "" THEN "" ELSE ToLowerChar(Head(s)) \o lower(Tail(s))

\* str.startswith(prefix)
startswith(s, prefix) ==
    Len(s) >= Len(prefix) /\ SubSeq(s, 1, Len(prefix)) = prefix

\* "needle in s" for strings
Contains(s, needle) ==
    \E i \in 1..(Len(s) - Len(needle) + 1) :
        SubSeq(s, i, i + Len(needle) - 1) = needle

\* unicode(x): the text of x; unicode(None) is the text u'None'.
unicode(x) == IF x = None THEN "None" ELSE x

-----------------------------------------------------------------------------
(* Identifier preparer *)

\* A part of sqlalchemy.sql.compiler.RESERVED_WORDS, which the preparer of
\* the dialect inherits.
ReservedWords == {"as", "in", "to", "table", "select", "unique"}

\* IdentifierPreparer.legal_characters: ^[A-Z0-9_$]+$, case-insensitive.
LegalCharacters ==
    CharsOf(Lowercase) \cup CharsOf(Uppercase) \cup CharsOf(Digits) \cup {"_", "$"}

\* IdentifierPreparer.illegal_initial_characters: the digits and '$'.
IllegalInitialCharacters == CharsOf(Digits) \cup {"$"}

\* IdentifierPreparer._requires_quotes(value), inherited from
\* sqlalchemy.sql.compiler and called by normalize_name/denormalize_name.
\* value is not empty (value[0] raises IndexError on the empty string).
_requires_quotes(value) ==
    LET lc_value == lower(value) IN
    \/ lc_value \in ReservedWords
    \/ Head(value) \in IllegalInitialCharacters
    \/ ~(CharsOf(value) \subseteq LegalCharacters)
    \/ lc_value /= value

\* IdentifierPreparer.quote(ident): quoted when it requires quotes.
quote(name) ==
    IF _requires_quotes(name) THEN "\"" \o name \o "\"" ELSE name

\* The format_constraint of the generic preparer, which HANA overrides:
\* the quoted name.
format_constraint_named(constraint) == quote(constraint.name)

\* HANAIdentifierPreparer.format_constraint: HANA has no named constraints.
format_constraint(constraint) == None

-----------------------------------------------------------------------------
(* Name normalisation *)

\* normalize_name without the test whether the lower-cased name requires
\* quotes: what C2 would not hold of.
normalize_name_unchecked(name) ==
    IF name = None THEN None
    ELSE IF upper(name) = name THEN lower(name) ELSE name

\* HANADialect.normalize_name: an all-upper-case name whose lower-case
\* form needs no quotes is lower-cased; any other name, and None, is
\* returned as it is.
normalize_name(name) ==
    IF name = None THEN None
    ELSE IF upper(name) = name /\ ~_requires_quotes(lower(name))
         THEN lower(name)
         ELSE name

\* denormalize_name testing upper(name) = name where the code tests
\* lower(name) = name: what C1 would not hold of.
denormalize_name_upper_test(name) ==
    IF name = None THEN None
    ELSE IF upper(name) = name /\ ~_requires_quotes(lower(name))
         THEN upper(name)
         ELSE name

\* HANADialect.denormalize_name: an all-lower-case name that needs no
\* quotes is upper-cased; any other name, and None, is returned as it is.
denormalize_name(name) ==
    IF name = None THEN None
    ELSE IF lower(name) = name /\ ~_requires_quotes(lower(name))
         THEN upper(name)
         ELSE name

-----------------------------------------------------------------------------
(* Statement, type and DDL compilers *)

\* IdentifierPreparer.format_sequence(seq): the quoted sequence name.
format_sequence(seq) == quote(seq)

\* HANAStatementCompiler.visit_sequence
visit_sequence(seq) == format_sequence(seq) \o ".NEXTVAL"

\* HANAStatementCompiler.default_from
default_from == " FROM DUMMY"

\* HANATypeCompiler.visit_TINYINT
visit_TINYINT(type_) == "TINYINT"

\* HANATypeCompiler.visit_DOUBLE
visit_DOUBLE(type_) == "DOUBLE"

\* HANATypeCompiler.visit_boolean
visit_boolean(type_) == visit_TINYINT(type_)

\* HANADDLCompiler.visit_check_constraint: no check constraints in HANA.
visit_check_constraint(constraint) == None

RECURSIVE Join(_, _)
\* sep.join(parts)
Join(sep, parts) ==
    IF parts = <<>> THEN ""
    ELSE IF Len(parts) = 1 THEN parts[1]
    ELSE parts[1] \o sep \o Join(sep, Tail(parts))

\* DDLCompiler.define_constraint_deferrability.  constraint.deferrable is
\* None, "True" or "False"; constraint.initially is None or a keyword.
define_constraint_deferrability(constraint) ==
    LET deferrable ==
            IF constraint.deferrable = None THEN ""
            ELSE IF constraint.deferrable = "True" THEN " DEFERRABLE"
            ELSE " NOT DEFERRABLE"
        initially ==
            IF constraint.initially = None THEN ""
            ELSE " INITIALLY " \o constraint.initially
    IN  deferrable \o initially

\* HANADDLCompiler.visit_unique_constraint.  constraint.columns are the
\* names of the columns of the constraint, len(constraint) their number.
visit_unique_constraint(constraint) ==
    IF Len(constraint.columns) = 0 THEN ""
    ELSE
        LET formatted_name == format_constraint(constraint)
            prefix ==
                IF constraint.name /= None /\ formatted_name /= None
                THEN "CONSTRAINT " \o formatted_name \o " "
                ELSE ""
            quoted == [i \in 1..Len(constraint.columns) |->
                          quote(constraint.columns[i])]
        IN  prefix \o "UNIQUE (" \o Join(", ", quoted) \o ")"
                   \o define_constraint_deferrability(constraint)

-----------------------------------------------------------------------------
(* Connection *)

DefaultPort == 30015

\* HANADialect.create_connect_args.  url is the record of the attributes
\* that are set in the URL; url.translate_connect_args(username="user")
\* gives them as a dict, the username under the key "user"; setdefault adds
\* the port when the URL has none.
create_connect_args(url) ==
    LET attr(key) == IF key = "user" THEN "username" ELSE key
        keys == {IF a = "username" THEN "user" ELSE a : a \in DOMAIN url}
        kwargs == [k \in keys |-> url[attr(k)]]
    IN  IF "port" \in DOMAIN kwargs THEN kwargs
        ELSE kwargs @@ ("port" :> DefaultPort)

\* HANADialect._get_default_schema_name
_get_default_schema_name(username) == upper(username)

-----------------------------------------------------------------------------
(* Catalog queries *)

\* The rows of a view that satisfy the WHERE clause, in the order of the view.
SelectWhere(rows, Where(_)) ==
    LET kept[i \in 0..Len(rows)] ==
            IF i = 0 THEN <<>>
            ELSE IF Where(rows[i]) THEN Append(kept[i - 1], rows[i])
            ELSE kept[i - 1]
    IN  kept[Len(rows)]

\* The characters of the model in ASCII order, for ORDER BY on names.
Collation == " $" \o Digits \o Uppercase \o "_" \o Lowercase

\* The rank of every character in the collation.
Rank == [c \in CharsOf(Collation) |-> Position(c, Collation)]

RECURSIVE StringLess(_, _)
StringLess(a, b) ==
    IF b = "" THEN FALSE
    ELSE IF a = "" THEN TRUE
    ELSE LET x == Rank[Head(a)]
             y == Rank[Head(b)]
         IN  x < y \/ (x = y /\ StringLess(Tail(a), Tail(b)))

\* row put before the first row of the sorted sequence that is greater.
Insert(sorted, row, Less(_, _)) ==
    LET greater == {i \in 1..Len(sorted) : Less(row, sorted[i])}
        k == IF greater = {} THEN Len(sorted) + 1
             ELSE CHOOSE i \in greater : \A j \in greater : i <= j
    IN  SubSeq(sorted, 1, k - 1) \o <<row>> \o SubSeq(sorted, k, Len(sorted))

\* ORDER BY: the rows sorted by Less; rows that tie keep their order.
OrderBy(rows, Less(_, _)) ==
    LET sorted[i \in 0..Len(rows)] ==
            IF i = 0 THEN <<>> ELSE Insert(sorted[i - 1], rows[i], Less)
    IN  sorted[Len(rows)]

ByPosition(r1, r2) == r1.POSITION < r2.POSITION

ByConstraintNameAndPosition(r1, r2) ==
    \/ StringLess(r1.CONSTRAINT_NAME, r2.CONSTRAINT_NAME)
    \/ r1.CONSTRAINT_NAME = r2.CONSTRAINT_NAME /\ r1.POSITION < r2.POSITION

\* The :schema and :table parameters bound by an introspection query.
BindParams(table_name, schema) ==
    [ schema |-> unicode(denormalize_name(schema)),
      table  |-> unicode(denormalize_name(table_name)) ]

\* WHERE SCHEMA_NAME=:schema AND TABLE_NAME=:table
OfTable(rows, bind) ==
    SelectWhere(rows, LAMBDA r : r.SCHEMA_NAME = bind.schema
                                 /\ r.TABLE_NAME = bind.table)

-----------------------------------------------------------------------------
(* Introspection.  connection is the catalog the connection reads; every   *)
(* operation gives the parameters it bound, the rows it fetched, the value *)
(* it returned and the warnings it issued.                                 *)

\* HANADialect.has_table
has_table(connection, table_name, schema) ==
    LET schema_ == Or(schema, default_schema_name)
        bind    == BindParams(table_name, schema_)
        result  == OfTable(connection.TABLES, bind)
    IN  [bind |-> bind, rows |-> result, value |-> (result /= <<>>),
         warnings |-> <<>>]

\* HANADialect.has_sequence
has_sequence(connection, sequence_name, schema) ==
    LET schema_ == Or(schema, default_schema_name)
        bind    == [ schema   |-> unicode(denormalize_name(schema_)),
                     sequence |-> unicode(denormalize_name(sequence_name)) ]
        result  == SelectWhere(connection.SEQUENCES,
                       LAMBDA r : r.SCHEMA_NAME = bind.schema
                                  /\ r.SEQUENCE_NAME = bind.sequence)
    IN  [bind |-> bind, rows |-> result, value |-> (result /= <<>>),
         warnings |-> <<>>]

\* HANADialect.get_schema_names
get_schema_names(connection) ==
    LET result == connection.SCHEMAS
    IN  [bind |-> <<>>, rows |-> result,
         value |-> [i \in 1..Len(result) |->
                       normalize_name(result[i].SCHEMA_NAME)],
         warnings |-> <<>>]

\* HANADialect.get_table_names
get_table_names(connection, schema) ==
    LET schema_ == Or(schema, default_schema_name)
        bind    == [schema |-> unicode(denormalize_name(schema_))]
        result  == SelectWhere(connection.TABLES,
                       LAMBDA r : r.SCHEMA_NAME = bind.schema)
    IN  [bind |-> bind, rows |-> result,
         value |-> [i \in 1..Len(result) |->
                       normalize_name(result[i].TABLE_NAME)],
         warnings |-> <<>>]

\* Names that sqlalchemy.types defines (hasattr(types, name)).
GenericTypes ==
    {"INTEGER", "DECIMAL", "VARCHAR", "BOOLEAN", "DATE", "TIME", "TIMESTAMP"}

\* Names that sqlalchemy_hana.types defines (hasattr(hana_types, name)).
HanaTypes == {"TINYINT", "DOUBLE", "BOOLEAN", "DATE", "TIME", "TIMESTAMP"}

\* types.NULLTYPE
NULLTYPE == [module |-> "types", name |-> "NULLTYPE", args |-> <<>>]

\* The lookup with the two registries in the other order, the HANA types
\* before the generic ones: what C7 would not hold of.
ColumnTypeHanaFirst(row) ==
    LET named ==
            IF row.DATA_TYPE_NAME \in HanaTypes
            THEN [module |-> "hana_types", name |-> row.DATA_TYPE_NAME,
                  args |-> <<>>]
            ELSE IF row.DATA_TYPE_NAME \in GenericTypes
            THEN [module |-> "types", name |-> row.DATA_TYPE_NAME,
                  args |-> <<>>]
            ELSE NULLTYPE
    IN  IF named.module = "types" /\ named.name = "DECIMAL"
        THEN [named EXCEPT !.args = <<row.LENGTH, row.SCALE>>]
        ELSE IF named.module = "types" /\ named.name = "VARCHAR"
        THEN [named EXCEPT !.args = <<row.LENGTH>>]
        ELSE named

\* The type of a column: the generic type of that name, else the HANA type
\* of that name, else NULLTYPE; DECIMAL and VARCHAR get their arguments.
ColumnType(row) ==
    LET named ==
            IF row.DATA_TYPE_NAME \in GenericTypes
            THEN [module |-> "types", name |-> row.DATA_TYPE_NAME,
                  args |-> <<>>]
            ELSE IF row.DATA_TYPE_NAME \in HanaTypes
            THEN [module |-> "hana_types", name |-> row.DATA_TYPE_NAME,
                  args |-> <<>>]
            ELSE NULLTYPE
    IN  IF named.module = "types" /\ named.name = "DECIMAL"
        THEN [named EXCEPT !.args = <<row.LENGTH, row.SCALE>>]
        ELSE IF named.module = "types" /\ named.name = "VARCHAR"
        THEN [named EXCEPT !.args = <<row.LENGTH>>]
        ELSE named

\* The type name is in neither registry: util.warn is called.
Unrecognized(row) ==
    row.DATA_TYPE_NAME \notin GenericTypes \cup HanaTypes

\* The dict get_columns builds for a row.
ColumnOf(row) ==
    [ name     |-> normalize_name(row.COLUMN_NAME),
      default  |-> row.DEFAULT_VALUE,
      nullable |-> (row.IS_NULLABLE = "TRUE"),
      type     |-> ColumnType(row) ]

\* HANADialect.get_columns
get_columns(connection, table_name, schema) ==
    LET schema_ == Or(schema, default_schema_name)
        bind    == BindParams(table_name, schema_)
        result  == OrderBy(OfTable(connection.TABLE_COLUMNS, bind), ByPosition)
        columns[i \in 0..Len(result)] ==
            IF i = 0 THEN <<>> ELSE Append(columns[i - 1], ColumnOf(result[i]))
        warned[i \in 0..Len(result)] ==
            IF i = 0 THEN <<>>
            ELSE IF Unrecognized(result[i])
                 THEN Append(warned[i - 1],
                          "Did not recognize type '" \o result[i].DATA_TYPE_NAME
                          \o "' of column '"
                          \o normalize_name(result[i].COLUMN_NAME) \o "'")
                 ELSE warned[i - 1]
    IN  [bind |-> bind, rows |-> result, value |-> columns[Len(result)],
         warnings |-> warned[Len(result)]]

\* The dict of a row with "and" where the code has "or" in the test for
\* referred_schema: what C6 would not hold of.
ForeignKeyOfAnd(row, schema) ==
    [ name                |-> None,
      constrained_columns |-> <<normalize_name(row.COLUMN_NAME)>>,
      referred_schema     |->
          IF schema /= None
             /\ row.REFERENCED_SCHEMA_NAME /= default_schema_name
          THEN row.REFERENCED_SCHEMA_NAME
          ELSE None,
      referred_table      |-> normalize_name(row.REFERENCED_TABLE_NAME),
      referred_columns    |-> <<normalize_name(row.REFERENCED_COLUMN_NAME)>> ]

\* The dict get_foreign_keys builds for a row; schema is the argument of
\* the call. referred_schema is the catalog value, not its normalised
\* form.
ForeignKeyOf(row, schema) ==
    [ name                |-> None,
      constrained_columns |-> <<normalize_name(row.COLUMN_NAME)>>,
      referred_schema     |->
          IF schema /= None
             \/ row.REFERENCED_SCHEMA_NAME /= default_schema_name
          THEN row.REFERENCED_SCHEMA_NAME
          ELSE None,
      referred_table      |-> normalize_name(row.REFERENCED_TABLE_NAME),
      referred_columns    |-> <<normalize_name(row.REFERENCED_COLUMN_NAME)>> ]

\* HANADialect.get_foreign_keys
get_foreign_keys(connection, table_name, schema) ==
    LET lookup_schema == Or(schema, default_schema_name)
        bind   == BindParams(table_name, lookup_schema)
        result == OrderBy(OfTable(connection.REFERENTIAL_CONSTRAINTS, bind),
                          ByConstraintNameAndPosition)
    IN  [bind |-> bind, rows |-> result,
         value |-> [i \in 1..Len(result) |-> ForeignKeyOf(result[i], schema)],
         warnings |-> <<>>]

\* One pass of the loop of get_indexes: indexes, the dict keyed by the
\* normalised index name, after the row. unique is set when the entry is
\* made and not afterwards.
IndexesAfter(indexes, row) ==
    IF startswith(row.INDEX_NAME, "_SYS") THEN indexes
    ELSE
        LET name   == normalize_name(row.INDEX_NAME)
            column == normalize_name(row.COLUMN_NAME)
        IN  IF name \notin DOMAIN indexes
            THEN indexes @@
                 (name :> [ name |-> name,
                            unique |-> IF row.CONSTRAINT /= None
                                       THEN Contains(upper(row.CONSTRAINT),
                                                     "UNIQUE")
                                       ELSE FALSE,
                            column_names |-> <<column>> ])
            ELSE [indexes EXCEPT ![name].column_names = Append(@, column)]

\* HANADialect.get_indexes.  indexes.values() comes in the order of the
\* dict, which is arbitrary: the value is the set of the entries.
get_indexes(connection, table_name, schema) ==
    LET schema_ == Or(schema, default_schema_name)
        bind    == BindParams(table_name, schema_)
        result  == OrderBy(OfTable(connection.INDEX_COLUMNS, bind), ByPosition)
        indexes[i \in 0..Len(result)] ==
            IF i = 0 THEN <<>> ELSE IndexesAfter(indexes[i - 1], result[i])
    IN  [bind |-> bind, rows |-> result,
         value |-> {indexes[Len(result)][n] : n \in DOMAIN indexes[Len(result)]},
         warnings |-> <<>>]

\* The constraint name as text, "None" when no row matched: what C8 would
\* not hold of.
ConstraintNameAsText(result) ==
    IF result = <<>> THEN unicode(None) ELSE result[Len(result)].CONSTRAINT_NAME

\* The constraint name after the loop of get_pk_constraint: None before
\* the first row, then the name of each row in turn.
ConstraintNameOf(result) ==
    IF result = <<>> THEN None ELSE result[Len(result)].CONSTRAINT_NAME

\* HANADialect.get_pk_constraint
get_pk_constraint(connection, table_name, schema) ==
    LET schema_ == Or(schema, default_schema_name)
        bind    == BindParams(table_name, schema_)
        result  == OrderBy(
                       SelectWhere(OfTable(connection.CONSTRAINTS, bind),
                                   LAMBDA r : r.IS_PRIMARY_KEY = "TRUE"),
                       ByPosition)
    IN  [bind |-> bind, rows |-> result,
         value |-> [ name |-> normalize_name(ConstraintNameOf(result)),
                     constrained_columns |->
                         [i \in 1..Len(result) |->
                             normalize_name(result[i].COLUMN_NAME)] ],
         warnings |-> <<>>]

-----------------------------------------------------------------------------
(* Bounds and input domains *)

MaxNameLen == 2     \* longest identifier handed to the name conversions
MaxSteps   == 3     \* longest chain of conversions applied to one identifier

\* An upper/lower-case pair that spells the reserved word "as", a caseless
\* legal character, an illegal initial character and an illegal character.
NameAlphabet == {"a", "A", "s", "S", "_", "1", " "}

RECURSIVE StringsUpTo(_, _)
StringsUpTo(alphabet, n) ==
    IF n = 0 THEN {""}
    ELSE LET shorter == StringsUpTo(alphabet, n - 1)
         IN  shorter \cup {s \o c : s \in shorter, c \in alphabet}

\* The identifiers: the non-empty strings over NameAlphabet.
Names == StringsUpTo(NameAlphabet, MaxNameLen) \ {""}

\* No operation of the dialect was called yet.
NoCall == [op |-> "none"]

\* sqlalchemy_hana.dialect.HANADialect: the capability flags set in the
\* class body.
ClassFlags ==
    [ name                         |-> "hana",
      driver                       |-> "pyhdb",
      encoding                     |-> "cesu-8",
      convert_unicode              |-> TRUE,
      supports_unicode_statements  |-> TRUE,
      supports_unicode_binds       |-> TRUE,
      requires_name_normalize      |-> TRUE,
      supports_sequences           |-> TRUE,
      supports_native_decimal      |-> TRUE,
      postfetch_lastrowid          |-> FALSE,
      implicit_returning           |-> FALSE,
      supports_empty_insert        |-> FALSE,
      supports_native_boolean      |-> FALSE,
      supports_default_values      |-> FALSE,
      supports_sane_multi_rowcount |-> FALSE ]

EmptyCatalog ==
    [ SCHEMAS |-> <<>>, TABLES |-> <<>>, SEQUENCES |-> <<>>,
      TABLE_COLUMNS |-> <<>>, REFERENTIAL_CONSTRAINTS |-> <<>>,
      INDEX_COLUMNS |-> <<>>, CONSTRAINTS |-> <<>> ]

-----------------------------------------------------------------------------
(* The name conversions applied to an identifier, one after the other *)

\* The value the next conversion is applied to.
CurrentName == IF steps = <<>> THEN ident ELSE steps[Len(steps)].out

InitNames ==
    /\ ident \in Names \cup {None}
    /\ steps = <<>>
    /\ catalog = EmptyCatalog
    /\ default_schema_name = "SYSTEM"
    /\ flags = ClassFlags
    /\ last = NoCall
    /\ prev = NoCall

NormalizeName ==
    /\ Len(steps) < MaxSteps
    /\ steps' = Append(steps, [fn |-> "normalize_name",
                               out |-> normalize_name(CurrentName)])
    /\ UNCHANGED <<ident, catalog, default_schema_name, flags, last, prev>>

DenormalizeName ==
    /\ Len(steps) < MaxSteps
    /\ steps' = Append(steps, [fn |-> "denormalize_name",
                               out |-> denormalize_name(CurrentName)])
    /\ UNCHANGED <<ident, catalog, default_schema_name, flags, last, prev>>

NextNames == NormalizeName \/ DenormalizeName

SpecNames == InitNames /\ [][NextNames]_vars

\* The functions applied so far, in order.
Applied == [i \in 1..Len(steps) |-> steps[i].fn]

\* An identifier with both upper-case and lower-case letters.
MixedCase(x) == upper(x) /= x /\ lower(x) /= x

\* An identifier that requires quoting: mixed case, or a reserved word,
\* an illegal initial character or an illegal character whatever its case.
NeedsQuoting(x) == MixedCase(x) \/ _requires_quotes(lower(x))

\* C1: normalize_name and denormalize_name are inverses on every identifier
\* that does not require quoting: an all-upper-case identifier survives
\* normalize-then-denormalize, an all-lower-case one survives
\* denormalize-then-normalize, and normalize(denormalize(normalize(X))) is
\* normalize(X).
C1_Inverses ==
    ident /= None /\ ~NeedsQuoting(ident) =>
        /\ (upper(ident) = ident /\ Len(steps) >= 2
              /\ SubSeq(Applied, 1, 2) = <<"normalize_name", "denormalize_name">>)
           => steps[2].out = ident
        /\ (lower(ident) = ident /\ Len(steps) >= 2
              /\ SubSeq(Applied, 1, 2) = <<"denormalize_name", "normalize_name">>)
           => steps[2].out = ident
        /\ (upper(ident) = ident /\ Len(steps) >= 3
              /\ SubSeq(Applied, 1, 3) =
                   <<"normalize_name", "denormalize_name", "normalize_name">>)
           => steps[3].out = steps[1].out

\* An identifier with letters, not requiring quoting, was lower-cased by
\* normalize_name and restored by denormalize_name.
C1_Witness ==
    /\ ident /= None /\ ~NeedsQuoting(ident) /\ upper(ident) = ident
    /\ Len(steps) = 3
    /\ Applied = <<"normalize_name", "denormalize_name", "normalize_name">>
    /\ steps[1].out /= ident
    /\ steps[2].out = ident
    /\ steps[3].out = steps[1].out

\* C2: an identifier that requires quoting is returned unchanged by
\* normalize_name and by denormalize_name, in whatever casing it is given,
\* and both return None for None.
C2_Passthrough ==
    \A i \in 1..Len(steps) :
        LET arg == IF i = 1 THEN ident ELSE steps[i - 1].out IN
        /\ arg = None => steps[i].out = None
        /\ (arg /= None /\ NeedsQuoting(arg)) => steps[i].out = arg

\* A reserved word in upper case went through both conversions unchanged.
C2_Witness ==
    /\ ident = "AS"
    /\ Len(steps) = 2
    /\ Applied = <<"normalize_name", "denormalize_name">>
    /\ steps[1].out = "AS" /\ steps[2].out = "AS"

-----------------------------------------------------------------------------
(* Calls of the operations of the dialect *)

\* What no operation writes.
Frame == UNCHANGED <<ident, steps, catalog, default_schema_name, flags>>

\* The record of a call that executed no query.
Returned(op, args, value) ==
    [op |-> op, args |-> args, cat |-> catalog, bind |-> <<>>,
     rows |-> <<>>, value |-> value, warnings |-> <<>>]

\* The record of a call of an introspection operation: the catalog it
\* read and what the operation gave.
Introspected(op, args, execution) ==
    [op |-> op, args |-> args, cat |-> catalog, bind |-> execution.bind,
     rows |-> execution.rows, value |-> execution.value,
     warnings |-> execution.warnings]

InitDialect ==
    /\ ident = None
    /\ steps = <<>>
    /\ default_schema_name = _get_default_schema_name("system")
    /\ flags = ClassFlags
    /\ last = NoCall
    /\ prev = NoCall

-----------------------------------------------------------------------------
(* DDL compilation of unique constraints *)

MaxColumns == 2     \* most columns of a unique constraint

ConstraintColumnNames == {"a", "b", "As"}

RECURSIVE SeqsUpTo(_, _)
\* The sequences of at most n elements of S.
SeqsUpTo(S, n) ==
    IF n = 0 THEN {<<>>}
    ELSE LET shorter == SeqsUpTo(S, n - 1)
         IN  shorter \cup {Append(q, x) : q \in shorter, x \in S}

\* The sequences of at most n elements of S any two of which are
\* Compatible: the contents of a view whose rows obey a key.
PairwiseSeqs(S, n, Compatible(_, _)) ==
    LET Fits(q, x) == \A i \in 1..Len(q) : Compatible(q[i], x)
        seqs[k \in 0..n] ==
            IF k = 0 THEN {<<>>}
            ELSE seqs[k - 1] \cup
                 { Append(e[1], e[2]) :
                     e \in { c \in {p \in seqs[k - 1] : Len(p) = k - 1} \X S :
                                Fits(c[1], c[2]) } }
    IN  seqs[n]

UniqueConstraints ==
    [ name       : {None, "uq_ab"},
      columns    : SeqsUpTo(ConstraintColumnNames, MaxColumns),
      deferrable : {None, "True", "False"},
      initially  : {None, "DEFERRED"} ]

VisitUniqueConstraint(constraint) ==
    /\ last' = Returned("visit_unique_constraint", <<constraint>>,
                        visit_unique_constraint(constraint))
    /\ Frame

FormatConstraint(constraint) ==
    /\ last' = Returned("format_constraint", <<constraint>>,
                        format_constraint(constraint))
    /\ Frame

VisitCheckConstraint(constraint) ==
    /\ last' = Returned("visit_check_constraint", <<constraint>>,
                        visit_check_constraint(constraint))
    /\ Frame

InitDDL == InitDialect /\ catalog = EmptyCatalog

NextDDL ==
    \E constraint \in UniqueConstraints :
        /\ \/ VisitUniqueConstraint(constraint)
           \/ FormatConstraint(constraint)
           \/ VisitCheckConstraint(constraint)
        /\ UNCHANGED prev

SpecDDL == InitDDL /\ [][NextDDL]_vars

\* C9: visit_unique_constraint returns empty text for a constraint without
\* columns; for a constraint with columns, named or not, the text begins
\* with UNIQUE ( followed by the quoted column names joined by ", " and ),
\* it is exactly UNIQUE (a, b) for the unnamed, non-deferrable UNIQUE(a, b),
\* and it holds no CONSTRAINT <name> prefix, as format_constraint returns
\* None for every constraint.
C9_UniqueConstraintText ==
    /\ last.op = "format_constraint" => last.value = None
    /\ last.op = "visit_unique_constraint" =>
        LET constraint == last.args[1]
            columns    == constraint.columns
        IN  /\ columns = <<>> => last.value = ""
            /\ columns /= <<>> =>
                /\ startswith(last.value,
                       "UNIQUE ("
                       \o Join(", ", [i \in 1..Len(columns) |-> quote(columns[i])])
                       \o ")")
                /\ ~Contains(last.value, "CONSTRAINT")
            /\ (columns = <<"a", "b">> /\ constraint.name = None
                  /\ constraint.deferrable = None /\ constraint.initially = None)
               => last.value = "UNIQUE (a, b)"

\* A named constraint on a column that needs quotes was compiled to text
\* without its name.
C9_Witness ==
    /\ last.op = "visit_unique_constraint"
    /\ last.args[1].name = "uq_ab"
    /\ last.args[1].columns = <<"a", "As">>
    /\ last.args[1].deferrable = None /\ last.args[1].initially = None
    /\ last.value = "UNIQUE (a, \"As\")"

-----------------------------------------------------------------------------
(* Introspection calls *)

\* The table and schema arguments of the calls.  "" and None stand for the
\* default schema; "app" is another schema.
TableArgs  == {"t", "u"}
SchemaArgs == {None, "", "system", "app"}

HasTable(table_name, schema) ==
    /\ last' = Introspected("has_table", <<table_name, schema>>,
                            has_table(catalog, table_name, schema))
    /\ Frame

HasSequence(sequence_name, schema) ==
    /\ last' = Introspected("has_sequence", <<sequence_name, schema>>,
                            has_sequence(catalog, sequence_name, schema))
    /\ Frame

GetSchemaNames ==
    /\ last' = Introspected("get_schema_names", <<>>,
                            get_schema_names(catalog))
    /\ Frame

\* get_table_names answering from the previous call with the same
\* argument: what C10 would not hold of.
GetTableNamesCached(schema) ==
    /\ last' = IF last.op = "get_table_names" /\ last.args = <<schema>>
               THEN [last EXCEPT !.cat = catalog]
               ELSE Introspected("get_table_names", <<schema>>,
                                 get_table_names(catalog, schema))
    /\ Frame

\* A call of get_table_names: one query of the catalog as it is now.
GetTableNames(schema) ==
    /\ last' = Introspected("get_table_names", <<schema>>,
                            get_table_names(catalog, schema))
    /\ Frame

GetColumns(table_name, schema) ==
    /\ last' = Introspected("get_columns", <<table_name, schema>>,
                            get_columns(catalog, table_name, schema))
    /\ Frame

GetForeignKeys(table_name, schema) ==
    /\ last' = Introspected("get_foreign_keys", <<table_name, schema>>,
                            get_foreign_keys(catalog, table_name, schema))
    /\ Frame

GetIndexes(table_name, schema) ==
    /\ last' = Introspected("get_indexes", <<table_name, schema>>,
                            get_indexes(catalog, table_name, schema))
    /\ Frame

GetPkConstraint(table_name, schema) ==
    /\ last' = Introspected("get_pk_constraint", <<table_name, schema>>,
                            get_pk_constraint(catalog, table_name, schema))
    /\ Frame

-----------------------------------------------------------------------------
(* get_indexes on the contents of INDEX_COLUMNS *)

MaxIndexRows == 3     \* most rows of INDEX_COLUMNS

\* Rows of the indexes of table T of the default schema: an index with an
\* unquoted name, one with a quoted lower-case name, a system index.  A is
\* the first column of an index and B the second.  The CONSTRAINT marker is
\* null or a text, in either case of letters.
IndexColumnsRows ==
    { [ SCHEMA_NAME |-> "SYSTEM",
        TABLE_NAME  |-> "T",
        INDEX_NAME  |-> name,
        COLUMN_NAME |-> column[1],
        CONSTRAINT  |-> marker,
        POSITION    |-> column[2] ] :
      name   \in {"IDX", "idx", "_SYS_1"},
      column \in {<<"A", 1>>, <<"B", 2>>},
      marker \in {None, "NOT NULL unique", "PRIMARY KEY"} }

\* INDEX_COLUMNS has one row per column of an index, and the CONSTRAINT
\* marker of an index on each of them; the rows are stored in any order.
IndexColumnsContents ==
    PairwiseSeqs(IndexColumnsRows, MaxIndexRows,
        LAMBDA r1, r2 :
            r1.INDEX_NAME = r2.INDEX_NAME =>
                /\ r1.COLUMN_NAME /= r2.COLUMN_NAME
                /\ r1.CONSTRAINT = r2.CONSTRAINT)

InitIndexes ==
    /\ InitDialect
    /\ \E rows \in IndexColumnsContents :
           catalog = [EmptyCatalog EXCEPT !.INDEX_COLUMNS = rows]

NextIndexes ==
    \E table_name \in TableArgs :
        GetIndexes(table_name, None) /\ UNCHANGED prev

SpecIndexes == InitIndexes /\ [][NextIndexes]_vars

\* The fetched rows that get_indexes does not skip, in query order.
KeptRows(rows) ==
    SelectWhere(rows, LAMBDA r : ~startswith(r.INDEX_NAME, "_SYS"))

\* The normalised column names of the rows among them whose index name
\* satisfies Named, in query order.
ColumnsWhere(rows, Named(_)) ==
    LET of == SelectWhere(KeptRows(rows), LAMBDA r : Named(r.INDEX_NAME))
    IN  [i \in 1..Len(of) |-> normalize_name(of[i].COLUMN_NAME)]

Range(f) == {f[i] : i \in DOMAIN f}

\* The marker of a row says the index is unique.
MarkedUnique(row) ==
    row.CONSTRAINT /= None /\ Contains(upper(row.CONSTRAINT), "UNIQUE")

\* C4 as stated: get_indexes returns exactly one entry per distinct index
\* name of the rows that do not start with _SYS, holding the columns of the
\* rows that share that index name, in query order.
C4_OneEntryPerCatalogName ==
    last.op = "get_indexes" =>
        LET names == {r.INDEX_NAME : r \in Range(KeptRows(last.rows))}
        IN  /\ Cardinality(last.value) = Cardinality(names)
            /\ \A n \in names :
                   \E e \in last.value :
                       /\ e.name = normalize_name(n)
                       /\ e.column_names =
                              ColumnsWhere(last.rows, LAMBDA m : m = n)

\* What holds of C4 in the code: get_indexes returns one entry per distinct
\* normalised index name of the rows that do not start with _SYS; all rows
\* whose index names normalise to that name contribute their columns to it,
\* in query order; a row whose index name starts with _SYS contributes
\* neither an entry nor a column.
C4_OneEntryPerNormalizedName ==
    last.op = "get_indexes" =>
        LET names == {normalize_name(r.INDEX_NAME) :
                          r \in Range(KeptRows(last.rows))}
        IN  /\ {e.name : e \in last.value} = names
            /\ Cardinality(last.value) = Cardinality(names)
            /\ \A e \in last.value :
                   e.column_names =
                       ColumnsWhere(last.rows,
                                    LAMBDA m : normalize_name(m) = e.name)
            /\ \A i \in 1..Len(last.rows) : \A j \in 1..Len(last.rows) :
                   i < j => last.rows[i].POSITION <= last.rows[j].POSITION

\* Two rows of one index and a row of a system index were fetched; the
\* result is one entry with the two columns.
C4_Witness ==
    /\ last.op = "get_indexes"
    /\ Len(last.rows) = 3
    /\ \E i \in 1..3 : startswith(last.rows[i].INDEX_NAME, "_SYS")
    /\ \E e \in last.value : last.value = {e} /\ e.column_names = <<"a", "b">>

\* The input C4 fails on: the indexes IDX and "idx" of one table, which are
\* two indexes of the catalog, come back as the one entry idx holding the
\* columns of both.
C4_FailingInput ==
    /\ last.op = "get_indexes"
    /\ Len(last.rows) = 2
    /\ last.rows[1].INDEX_NAME = "IDX" /\ last.rows[1].COLUMN_NAME = "A"
    /\ last.rows[2].INDEX_NAME = "idx" /\ last.rows[2].COLUMN_NAME = "B"
    /\ \E e \in last.value :
           last.value = {e} /\ e.name = "idx" /\ e.column_names = <<"a", "b">>

\* C5 as stated: an index is reported unique if and only if the marker of
\* its rows contains UNIQUE, compared case-insensitively, and this holds for
\* every row of the index, whatever the position of the row with the marker.
C5_UniqueFromAnyRow ==
    last.op = "get_indexes" =>
        \A e \in last.value :
            \A r \in Range(KeptRows(last.rows)) :
                normalize_name(r.INDEX_NAME) = e.name =>
                    (e.unique <=> MarkedUnique(r))

\* What holds of C5 in the code: an entry is reported unique if and only
\* if the marker of the first of its rows in query order is not null and
\* contains UNIQUE, compared case-insensitively; the markers of its later
\* rows are not read.
C5_UniqueFromFirstRow ==
    last.op = "get_indexes" =>
        \A e \in last.value :
            LET of == SelectWhere(KeptRows(last.rows),
                          LAMBDA r : normalize_name(r.INDEX_NAME) = e.name)
            IN  of /= <<>> /\ (e.unique <=> MarkedUnique(of[1]))

\* A unique index with a lower-case marker and two columns, stored second
\* column first, is reported unique, and an index without marker is not.
C5_Witness ==
    /\ last.op = "get_indexes"
    /\ Len(last.rows) = 3
    /\ last.cat.INDEX_COLUMNS[1].INDEX_NAME = "IDX"
    /\ last.cat.INDEX_COLUMNS[1].POSITION = 2
    /\ last.rows[1].CONSTRAINT = "NOT NULL unique"
    /\ last.rows[3].CONSTRAINT = "NOT NULL unique"
    /\ last.rows[2].INDEX_NAME = "_SYS_1"
    /\ last.rows[2].CONSTRAINT = None
    /\ \E e \in last.value : last.value = {e} /\ e.unique

\* The input C5 fails on: the index IDX without marker and the unique index
\* "idx" of one table; the entry idx, which holds the column of the unique
\* index, is reported as not unique.
C5_FailingInput ==
    /\ last.op = "get_indexes"
    /\ Len(last.rows) = 2
    /\ last.rows[1].INDEX_NAME = "IDX" /\ last.rows[1].CONSTRAINT = None
    /\ last.rows[2].INDEX_NAME = "idx"
    /\ last.rows[2].CONSTRAINT = "NOT NULL unique"
    /\ \E e \in last.value : last.value = {e} /\ ~e.unique

-----------------------------------------------------------------------------
(* get_columns on the contents of TABLE_COLUMNS *)

MaxTableColumns == 2     \* most columns of a table

\* Rows of the columns of table T of the default schema.  DATE is a name of
\* both registries, TINYINT of the HANA registry alone, ST_POINT of neither.
TableColumnsRows ==
    [ SCHEMA_NAME    : {"SYSTEM"},
      TABLE_NAME     : {"T"},
      COLUMN_NAME    : {"ID", "NAME", "Qty"},
      DATA_TYPE_NAME : {"DECIMAL", "VARCHAR", "DATE", "TINYINT", "ST_POINT"},
      DEFAULT_VALUE  : {None},
      IS_NULLABLE    : {"TRUE", "FALSE"},
      LENGTH         : {10},
      SCALE          : {2},
      POSITION       : 1..MaxTableColumns ]

\* TABLE_COLUMNS has one row per column of a table, each column at its own
\* position; the rows are stored in any order.
TableColumnsContents ==
    PairwiseSeqs(TableColumnsRows, MaxTableColumns,
        LAMBDA r1, r2 :
            /\ r1.COLUMN_NAME /= r2.COLUMN_NAME
            /\ r1.POSITION /= r2.POSITION)

InitColumns ==
    /\ InitDialect
    /\ \E rows \in TableColumnsContents :
           catalog = [EmptyCatalog EXCEPT !.TABLE_COLUMNS = rows]

NextColumns ==
    \E table_name \in TableArgs :
        GetColumns(table_name, None) /\ UNCHANGED prev

SpecColumns == InitColumns /\ [][NextColumns]_vars

\* The rows are in ascending order of POSITION.
InPositionOrder(rows) ==
    \A i \in 1..Len(rows) : \A j \in 1..Len(rows) :
        i < j => rows[i].POSITION <= rows[j].POSITION

\* C7: get_columns returns one column per catalog row of the table, in
\* position order, whatever the type names: a type name of neither registry
\* gives the null type and a warning, a name of the generic registry the
\* generic type, any other name of the HANA registry the HANA type.
C7_UnknownTypeIsNullType ==
    last.op = "get_columns" =>
        LET of == SelectWhere(last.cat.TABLE_COLUMNS,
                      LAMBDA r : r.SCHEMA_NAME = default_schema_name
                                 /\ r.TABLE_NAME = upper(last.args[1]))
            unknown == {i \in 1..Len(last.rows) :
                           last.rows[i].DATA_TYPE_NAME
                               \notin GenericTypes \cup HanaTypes}
        IN  /\ Range(last.rows) = Range(of) /\ Len(last.rows) = Len(of)
            /\ InPositionOrder(last.rows)
            /\ Len(last.value) = Len(last.rows)
            /\ Len(last.warnings) = Cardinality(unknown)
            /\ \A i \in 1..Len(last.rows) :
                   LET type == last.value[i].type
                       name == last.rows[i].DATA_TYPE_NAME
                   IN  /\ last.value[i].name =
                              normalize_name(last.rows[i].COLUMN_NAME)
                       /\ i \in unknown => type = NULLTYPE
                       /\ name \in GenericTypes =>
                              type.module = "types" /\ type.name = name
                       /\ name \in HanaTypes \ GenericTypes =>
                              type.module = "hana_types" /\ type.name = name

\* A table whose second column, stored first, has an unknown type and whose
\* first column has a type of both registries was reflected.
C7_Witness ==
    /\ last.op = "get_columns"
    /\ Len(last.value) = 2
    /\ last.cat.TABLE_COLUMNS[1].POSITION = 2
    /\ last.rows[1].DATA_TYPE_NAME = "DATE"
    /\ last.rows[2].DATA_TYPE_NAME = "ST_POINT"
    /\ last.value[1].type = [module |-> "types", name |-> "DATE", args |-> <<>>]
    /\ last.value[2].type = NULLTYPE
    /\ Len(last.warnings) = 1

-----------------------------------------------------------------------------
(* get_foreign_keys on the contents of REFERENTIAL_CONSTRAINTS *)

MaxForeignKeyRows == 2     \* most rows of REFERENTIAL_CONSTRAINTS

\* Rows of the foreign keys of table T of the default schema, to table P of
\* the default schema or of schema APP.
ReferentialConstraintsRows ==
    [ SCHEMA_NAME            : {"SYSTEM"},
      TABLE_NAME             : {"T"},
      COLUMN_NAME            : {"A", "B"},
      REFERENCED_SCHEMA_NAME : {"SYSTEM", "APP"},
      REFERENCED_TABLE_NAME  : {"P"},
      REFERENCED_COLUMN_NAME : {"ID"},
      CONSTRAINT_NAME        : {"FK1", "FK2"},
      POSITION               : 1..2 ]

\* The rows of one constraint are its columns, each at its own position,
\* and refer to one schema.
ReferentialConstraintsContents ==
    PairwiseSeqs(ReferentialConstraintsRows, MaxForeignKeyRows,
        LAMBDA r1, r2 :
            r1.CONSTRAINT_NAME = r2.CONSTRAINT_NAME =>
                /\ r1.COLUMN_NAME /= r2.COLUMN_NAME
                /\ r1.POSITION /= r2.POSITION
                /\ r1.REFERENCED_SCHEMA_NAME = r2.REFERENCED_SCHEMA_NAME)

InitForeignKeys ==
    /\ InitDialect
    /\ \E rows \in ReferentialConstraintsContents :
           catalog = [EmptyCatalog EXCEPT !.REFERENTIAL_CONSTRAINTS = rows]

NextForeignKeys ==
    \E table_name \in TableArgs, schema \in SchemaArgs :
        GetForeignKeys(table_name, schema) /\ UNCHANGED prev

SpecForeignKeys == InitForeignKeys /\ [][NextForeignKeys]_vars

\* C6: get_foreign_keys reports no constraint name, and reports a
\* referred_schema that is not None if and only if a schema argument was
\* passed or the referenced schema of the row is not the default schema.
C6_ReferredSchema ==
    last.op = "get_foreign_keys" =>
        /\ Len(last.value) = Len(last.rows)
        /\ \A i \in 1..Len(last.value) :
               /\ last.value[i].name = None
               /\ last.value[i].referred_schema /= None
                  <=> \/ last.args[2] /= None
                      \/ last.rows[i].REFERENCED_SCHEMA_NAME
                             /= default_schema_name

\* Without a schema argument, a foreign key to the default schema was
\* reported without schema and one to another schema with its schema.
C6_Witness ==
    /\ last.op = "get_foreign_keys"
    /\ last.args[2] = None
    /\ Len(last.value) = 2
    /\ last.rows[1].REFERENCED_SCHEMA_NAME = "SYSTEM"
    /\ last.value[1].referred_schema = None
    /\ last.value[2].referred_schema = "APP"
    /\ last.value[1].name = None /\ last.value[2].name = None

-----------------------------------------------------------------------------
(* get_pk_constraint on the contents of CONSTRAINTS *)

MaxConstraintRows == 3     \* most rows of CONSTRAINTS

\* Rows of the constraints of table T of the default schema.
ConstraintsRows ==
    [ SCHEMA_NAME     : {"SYSTEM"},
      TABLE_NAME      : {"T"},
      CONSTRAINT_NAME : {"PK_T", "Pk", "UQ"},
      COLUMN_NAME     : {"ID", "B"},
      IS_PRIMARY_KEY  : {"TRUE", "FALSE"},
      POSITION        : 1..2 ]

\* The rows of one constraint are its columns, each at its own position,
\* all flagged alike; a table has at most one primary key.
ConstraintsContents ==
    PairwiseSeqs(ConstraintsRows, MaxConstraintRows,
        LAMBDA r1, r2 :
            /\ r1.CONSTRAINT_NAME = r2.CONSTRAINT_NAME =>
                   /\ r1.COLUMN_NAME /= r2.COLUMN_NAME
                   /\ r1.POSITION /= r2.POSITION
                   /\ r1.IS_PRIMARY_KEY = r2.IS_PRIMARY_KEY
            /\ (r1.IS_PRIMARY_KEY = "TRUE" /\ r2.IS_PRIMARY_KEY = "TRUE") =>
                   r1.CONSTRAINT_NAME = r2.CONSTRAINT_NAME)

InitPrimaryKey ==
    /\ InitDialect
    /\ \E rows \in ConstraintsContents :
           catalog = [EmptyCatalog EXCEPT !.CONSTRAINTS = rows]

NextPrimaryKey ==
    \E table_name \in TableArgs :
        GetPkConstraint(table_name, None) /\ UNCHANGED prev

SpecPrimaryKey == InitPrimaryKey /\ [][NextPrimaryKey]_vars

\* C8: get_pk_constraint returns a null name and no columns when no
\* primary-key row matches; otherwise the name of the constraint and the
\* columns of all its rows, one per row, in position order.
C8_PrimaryKey ==
    last.op = "get_pk_constraint" =>
        LET of == SelectWhere(last.cat.CONSTRAINTS,
                      LAMBDA r : /\ r.SCHEMA_NAME = default_schema_name
                                 /\ r.TABLE_NAME = upper(last.args[1])
                                 /\ r.IS_PRIMARY_KEY = "TRUE")
        IN  /\ Range(last.rows) = Range(of) /\ Len(last.rows) = Len(of)
            /\ InPositionOrder(last.rows)
            /\ of = <<>> =>
                   /\ last.value.name = None
                   /\ last.value.constrained_columns = <<>>
            /\ of /= <<>> =>
                   /\ \A r \in Range(of) :
                          last.value.name = normalize_name(r.CONSTRAINT_NAME)
                   /\ last.value.constrained_columns =
                          [i \in 1..Len(last.rows) |->
                              normalize_name(last.rows[i].COLUMN_NAME)]

\* A primary key of two columns, stored second column first beside a row of
\* another constraint, was reflected.
C8_Witness ==
    /\ last.op = "get_pk_constraint"
    /\ Len(last.cat.CONSTRAINTS) = 3
    /\ last.cat.CONSTRAINTS[1].POSITION = 2
    /\ last.cat.CONSTRAINTS[1].IS_PRIMARY_KEY = "TRUE"
    /\ last.value = [name |-> "pk_t", constrained_columns |-> <<"id", "b">>]

\* No primary-key row matched: the table has rows of another constraint.
C8_WitnessNoRows ==
    /\ last.op = "get_pk_constraint"
    /\ last.args[1] = "t"
    /\ last.cat.CONSTRAINTS /= <<>>
    /\ last.value = [name |-> None, constrained_columns |-> <<>>]

-----------------------------------------------------------------------------
(* All operations of the dialect on a database whose catalog changes *)

\* A database with table T of the default schema, which refers to table P
\* of schema APP and to itself, and a sequence.
ShopCatalog ==
    [ SCHEMAS |-> << [SCHEMA_NAME |-> "SYSTEM"], [SCHEMA_NAME |-> "APP"] >>,
      TABLES |-> << [SCHEMA_NAME |-> "SYSTEM", TABLE_NAME |-> "T"],
                    [SCHEMA_NAME |-> "APP", TABLE_NAME |-> "P"] >>,
      SEQUENCES |-> << [SCHEMA_NAME |-> "SYSTEM", SEQUENCE_NAME |-> "T_SEQ"] >>,
      TABLE_COLUMNS |->
          << [SCHEMA_NAME |-> "SYSTEM", TABLE_NAME |-> "T",
              COLUMN_NAME |-> "P_ID", DATA_TYPE_NAME |-> "DECIMAL",
              DEFAULT_VALUE |-> None, IS_NULLABLE |-> "TRUE",
              LENGTH |-> 10, SCALE |-> 2, POSITION |-> 2],
             [SCHEMA_NAME |-> "SYSTEM", TABLE_NAME |-> "T",
              COLUMN_NAME |-> "ID", DATA_TYPE_NAME |-> "INTEGER",
              DEFAULT_VALUE |-> None, IS_NULLABLE |-> "FALSE",
              LENGTH |-> 10, SCALE |-> 0, POSITION |-> 1],
             [SCHEMA_NAME |-> "APP", TABLE_NAME |-> "P",
              COLUMN_NAME |-> "ID", DATA_TYPE_NAME |-> "INTEGER",
              DEFAULT_VALUE |-> None, IS_NULLABLE |-> "FALSE",
              LENGTH |-> 10, SCALE |-> 0, POSITION |-> 1] >>,
      REFERENTIAL_CONSTRAINTS |->
          << [SCHEMA_NAME |-> "SYSTEM", TABLE_NAME |-> "T",
              COLUMN_NAME |-> "P_ID", REFERENCED_SCHEMA_NAME |-> "APP",
              REFERENCED_TABLE_NAME |-> "P", REFERENCED_COLUMN_NAME |-> "ID",
              CONSTRAINT_NAME |-> "FK_P", POSITION |-> 1] >>,
      INDEX_COLUMNS |->
          << [SCHEMA_NAME |-> "SYSTEM", TABLE_NAME |-> "T",
              INDEX_NAME |-> "_SYS_TREE_CS_1", COLUMN_NAME |-> "ID",
              CONSTRAINT |-> "PRIMARY KEY", POSITION |-> 1],
             [SCHEMA_NAME |-> "SYSTEM", TABLE_NAME |-> "T",
              INDEX_NAME |-> "T_P", COLUMN_NAME |-> "P_ID",
              CONSTRAINT |-> None, POSITION |-> 1] >>,
      CONSTRAINTS |->
          << [SCHEMA_NAME |-> "SYSTEM", TABLE_NAME |-> "T",
              CONSTRAINT_NAME |-> "PK_T", COLUMN_NAME |-> "ID",
              IS_PRIMARY_KEY |-> "TRUE", POSITION |-> 1] >> ]

\* The same database after DDL: schema "Mixed", table U, a second sequence,
\* a column, a foreign key of T to itself, a unique index and a second
\* primary-key column were added.
GrownCatalog ==
    [ SCHEMAS |-> Append(ShopCatalog.SCHEMAS, [SCHEMA_NAME |-> "Mixed"]),
      TABLES |-> Append(ShopCatalog.TABLES,
                        [SCHEMA_NAME |-> "SYSTEM", TABLE_NAME |-> "U"]),
      SEQUENCES |-> Append(ShopCatalog.SEQUENCES,
                           [SCHEMA_NAME |-> "APP", SEQUENCE_NAME |-> "T_SEQ"]),
      TABLE_COLUMNS |->
          Append(ShopCatalog.TABLE_COLUMNS,
                 [SCHEMA_NAME |-> "SYSTEM", TABLE_NAME |-> "T",
                  COLUMN_NAME |-> "PARENT", DATA_TYPE_NAME |-> "ST_POINT",
                  DEFAULT_VALUE |-> None, IS_NULLABLE |-> "TRUE",
                  LENGTH |-> 10, SCALE |-> 0, POSITION |-> 3]),
      REFERENTIAL_CONSTRAINTS |->
          Append(ShopCatalog.REFERENTIAL_CONSTRAINTS,
                 [SCHEMA_NAME |-> "SYSTEM", TABLE_NAME |-> "T",
                  COLUMN_NAME |-> "PARENT", REFERENCED_SCHEMA_NAME |-> "SYSTEM",
                  REFERENCED_TABLE_NAME |-> "T", REFERENCED_COLUMN_NAME |-> "ID",
                  CONSTRAINT_NAME |-> "FK_A", POSITION |-> 1]),
      INDEX_COLUMNS |->
          Append(ShopCatalog.INDEX_COLUMNS,
                 [SCHEMA_NAME |-> "SYSTEM", TABLE_NAME |-> "T",
                  INDEX_NAME |-> "T_PARENT", COLUMN_NAME |-> "PARENT",
                  CONSTRAINT |-> "UNIQUE", POSITION |-> 1]),
      CONSTRAINTS |->
          Append(ShopCatalog.CONSTRAINTS,
                 [SCHEMA_NAME |-> "SYSTEM", TABLE_NAME |-> "T",
                  CONSTRAINT_NAME |-> "PK_T", COLUMN_NAME |-> "P_ID",
                  IS_PRIMARY_KEY |-> "TRUE", POSITION |-> 2]) ]

Catalogs == {EmptyCatalog, ShopCatalog, GrownCatalog}

\* Connection URLs, with and without a port.
Urls ==
    { [host |-> "hana", username |-> "system", password |-> "secret"],
      [host |-> "hana", username |-> "system", port |-> 30115] }

\* DDL executed on the database by anyone changes the catalog.
ExecuteDDL ==
    /\ catalog' \in Catalogs \ {catalog}
    /\ UNCHANGED <<ident, steps, default_schema_name, flags, last, prev>>

CreateConnectArgs(url) ==
    /\ last' = Returned("create_connect_args", <<url>>,
                        create_connect_args(url))
    /\ Frame

VisitSequence(seq) ==
    /\ last' = Returned("visit_sequence", <<seq>>, visit_sequence(seq))
    /\ Frame

InitAll == InitDialect /\ catalog \in Catalogs

\* Any operation is called; the call before it is remembered.
CallAll ==
    /\ \/ \E table_name \in {"t"}, schema \in {None, "app"} :
              \/ HasTable(table_name, schema)
              \/ GetColumns(table_name, schema)
              \/ GetForeignKeys(table_name, schema)
              \/ GetIndexes(table_name, schema)
              \/ GetPkConstraint(table_name, schema)
       \/ \E schema \in {None, "app"} :
              \/ HasSequence("t_seq", schema)
              \/ GetTableNames(schema)
       \/ GetSchemaNames
       \/ \E url \in Urls : CreateConnectArgs(url)
       \/ VisitSequence("t_seq")
       \/ VisitUniqueConstraint([name |-> "uq_ab", columns |-> <<"a", "b">>,
                                 deferrable |-> None, initially |-> None])
    /\ prev' = last

NextAll == CallAll \/ ExecuteDDL

SpecAll == InitAll /\ [][NextAll]_vars

IntrospectionOps ==
    {"has_table", "has_sequence", "get_schema_names", "get_table_names",
     "get_columns", "get_foreign_keys", "get_indexes", "get_pk_constraint"}

\* The schema and table arguments of a recorded call, None where the
\* operation has none.
SchemaArg(call) ==
    IF call.op = "get_table_names" THEN call.args[1]
    ELSE IF call.op = "get_schema_names" THEN None
    ELSE call.args[2]

\* The query of the call bound the denormalised schema and table names.
BoundDenormalized(call) ==
    LET schema == denormalize_name(Or(SchemaArg(call), default_schema_name))
    IN  /\ call.op /= "get_schema_names" => call.bind.schema = schema
        /\ call.op = "has_sequence" =>
               call.bind.sequence = denormalize_name(call.args[1])
        /\ call.op \notin {"get_schema_names", "get_table_names", "has_sequence"}
               => call.bind.table = denormalize_name(call.args[1])
        /\ call.op /= "get_schema_names" =>
               \A r \in Range(call.rows) : r.SCHEMA_NAME = schema

\* Every identifier the call returned, but the referred schema of a foreign
\* key, is the normalize_name image of the catalog value.
ReturnedNormalized(call) ==
    LET rows == call.rows IN
    /\ call.op = "get_schema_names" =>
           call.value = [i \in 1..Len(rows) |->
                            normalize_name(rows[i].SCHEMA_NAME)]
    /\ call.op = "get_table_names" =>
           call.value = [i \in 1..Len(rows) |->
                            normalize_name(rows[i].TABLE_NAME)]
    /\ call.op = "get_columns" =>
           [i \in 1..Len(call.value) |-> call.value[i].name] =
               [i \in 1..Len(rows) |-> normalize_name(rows[i].COLUMN_NAME)]
    /\ call.op = "get_foreign_keys" =>
           /\ Len(call.value) = Len(rows)
           /\ \A i \in 1..Len(rows) :
                  /\ call.value[i].constrained_columns =
                         <<normalize_name(rows[i].COLUMN_NAME)>>
                  /\ call.value[i].referred_table =
                         normalize_name(rows[i].REFERENCED_TABLE_NAME)
                  /\ call.value[i].referred_columns =
                         <<normalize_name(rows[i].REFERENCED_COLUMN_NAME)>>
    /\ call.op = "get_indexes" =>
           \A e \in call.value :
               /\ \E r \in Range(rows) : e.name = normalize_name(r.INDEX_NAME)
               /\ e.column_names =
                      ColumnsWhere(rows, LAMBDA m : normalize_name(m) = e.name)
    /\ call.op = "get_pk_constraint" =>
           /\ rows /= <<>> =>
                  call.value.name =
                      normalize_name(rows[Len(rows)].CONSTRAINT_NAME)
           /\ call.value.constrained_columns =
                  [i \in 1..Len(rows) |-> normalize_name(rows[i].COLUMN_NAME)]

\* The referred schema a foreign key reports is the normalize_name image of
\* the catalog value.
ReferredSchemaNormalized(call) ==
    call.op = "get_foreign_keys" =>
        \A i \in 1..Len(call.value) :
            call.value[i].referred_schema /= None =>
                call.value[i].referred_schema =
                    normalize_name(call.rows[i].REFERENCED_SCHEMA_NAME)

\* C3 as stated: every introspection operation binds the denormalised
\* schema and table names in its query, and every identifier it returns
\* (schema, table, column, index, constraint and referred-schema names) is
\* the normalize_name image of the catalog value.
C3_DenormalizedBindsNormalizedNames ==
    last.op \in IntrospectionOps =>
        /\ BoundDenormalized(last)
        /\ ReturnedNormalized(last)
        /\ ReferredSchemaNormalized(last)

\* What holds of C3: all of it but the referred schema of a foreign key,
\* which is the catalog value as it is.
C3_AllButReferredSchema ==
    last.op \in IntrospectionOps =>
        /\ BoundDenormalized(last)
        /\ ReturnedNormalized(last)
        /\ last.op = "get_foreign_keys" =>
               \A i \in 1..Len(last.value) :
                   last.value[i].referred_schema
                       \in {None, last.rows[i].REFERENCED_SCHEMA_NAME}

\* What an introspection operation gives on a catalog.
Introspect(op, args, cat) ==
    CASE op = "has_table"         -> has_table(cat, args[1], args[2])
      [] op = "has_sequence"      -> has_sequence(cat, args[1], args[2])
      [] op = "get_schema_names"  -> get_schema_names(cat)
      [] op = "get_table_names"   -> get_table_names(cat, args[1])
      [] op = "get_columns"       -> get_columns(cat, args[1], args[2])
      [] op = "get_foreign_keys"  -> get_foreign_keys(cat, args[1], args[2])
      [] op = "get_indexes"       -> get_indexes(cat, args[1], args[2])
      [] op = "get_pk_constraint" -> get_pk_constraint(cat, args[1], args[2])

\* The call gave what the operation gives on its arguments, the default
\* schema and the catalog as it was when the call was made.
DeterminedByCatalog(call) ==
    call.op \in IntrospectionOps =>
        /\ call.cat \in Catalogs
        /\ call.value = Introspect(call.op, call.args, call.cat).value

\* C10: no operation writes shared state: after any calls the capability
\* flags have their class-definition values, and what an introspection call
\* returns is determined by its arguments, the default schema and the
\* catalog at the time of the call; nothing is cached, so that a change of
\* the catalog between two identical calls shows in the second.
C10_NoSharedState ==
    /\ flags = ClassFlags
    /\ default_schema_name = _get_default_schema_name("system")
    /\ DeterminedByCatalog(last)
    /\ DeterminedByCatalog(prev)
    /\ (prev.op \in IntrospectionOps /\ prev.op = last.op
          /\ prev.args = last.args /\ prev.cat = last.cat)
       => prev.value = last.value

\* get_table_names was called twice with the same argument, the catalog
\* changed in between, and the second call returned the added table.
C10_Witness ==
    /\ prev.op = "get_table_names" /\ last.op = "get_table_names"
    /\ prev.args = <<None>> /\ last.args = <<None>>
    /\ prev.cat = ShopCatalog /\ last.cat = GrownCatalog
    /\ prev.value = <<"t">> /\ last.value = <<"t", "u">>
    /\ catalog = GrownCatalog
    /\ flags = ClassFlags

=============================================================================
